---- MODULE Spec2Model ----
(***************************************************************************)
(* A model of news_reader.py: a Tkinter RSS reader whose network work      *)
(* (fetch_rss, fetch_article) runs on an asyncio loop in a background      *)
(* thread (AsyncioThread) and whose results come back to the Tk main loop  *)
(* through root.after callbacks.                                           *)
(*                                                                         *)
(* A Python str is a sequence of tokens; a token is one character or one   *)
(* HTML entity ("&amp;").  An XML child element is a record                *)
(* [el, txt, s]: el = the element exists, txt = its .text is not None,     *)
(* s = the text.                                                           *)
(***************************************************************************)
EXTENDS Integers, Sequences, FiniteSets, TLC

VARIABLES
    tasks,                  \* the futures submitted to AsyncioThread, in order
    uiQueue,                \* callbacks scheduled with root.after(0, ...)
    uiPc,                   \* where the UI thread is inside an event handler
    closed,                 \* on_close has run
    dialogs,                \* open messagebox.showerror dialogs
    hist,                   \* per task: what its callbacks did on the UI thread
    thread,                 \* the thread that took the last step
    feed_choice,            \* self.feed_choice
    articles,               \* self.articles
    article_tree,           \* rows of self.article_tree
    selection,              \* self.article_tree.selection(): 0 = none
    content_text,           \* items of self.content_text
    image_refs,             \* self.image_refs
    current_article_link,   \* self.current_article_link
    current_categories,     \* self.current_categories
    category_var,           \* self.category_var
    load_button,            \* state of self.load_button
    link_button,            \* state of self.link_button
    arg,                    \* argument of a function called on its own
    ret                     \* its return value

presentation == <<articles, article_tree, selection, content_text, image_refs,
                  current_article_link, current_categories, category_var,
                  load_button, link_button>>
callVars == <<arg, ret>>
vars == <<tasks, uiQueue, uiPc, closed, dialogs, hist, thread, feed_choice,
          articles, article_tree, selection, content_text, image_refs,
          current_article_link, current_categories, category_var,
          load_button, link_button, arg, ret>>

(***************************************************************************)
(* Bounds                                                                  *)
(***************************************************************************)
MaxTasks == 3       \* futures submitted in one run
MaxItems == 2       \* <item> elements of a feed document
MaxElems == 3       \* <p> and <img> elements of an article page
MaxParas == 3       \* paragraphs handed to display_article
MaxImages == 3      \* images handed to display_article

(***************************************************************************)
(* Strings                                                                 *)
(***************************************************************************)
None == [none |-> TRUE, v |-> <<>>]
Some(v) == [none |-> FALSE, v |-> v]

RECURSIVE lstrip(_)
lstrip(s) == IF s # <<>> /\ Head(s) = " " THEN lstrip(Tail(s)) ELSE s

RECURSIVE rstrip(_)
rstrip(s) ==
    IF s # <<>> /\ s[Len(s)] = " " THEN rstrip(SubSeq(s, 1, Len(s) - 1)) ELSE s

\* str.strip()
strip(s) == rstrip(lstrip(s))

\* html.unescape on the entities of the model
unescape(s) == [i \in 1..Len(s) |-> IF s[i] = "&amp;" THEN "&" ELSE s[i]]

Absent == [el |-> FALSE, txt |-> FALSE, s |-> <<>>]
NoText == [el |-> TRUE, txt |-> FALSE, s |-> <<>>]
Txt(s) == [el |-> TRUE, txt |-> TRUE, s |-> s]

\* Element.findtext(tag, default): "" for an element whose text is None
findtext(child, default) ==
    IF ~child.el THEN default ELSE IF ~child.txt THEN <<>> ELSE child.s

Raise(e) == [ok |-> FALSE, error |-> e]
Return(v) == [ok |-> TRUE, value |-> v]

\* session.get(...) + raise_for_status(): the exception it raises, or "none"
get_error(resp) ==
    IF resp.net # "ok" THEN resp.net
    ELSE IF resp.status >= 400 THEN "ClientResponseError"
    ELSE "none"

(***************************************************************************)
(* fetch_rss                                                               *)
(***************************************************************************)
Article(title, link, categories) ==
    [title |-> title, link |-> link, categories |-> categories]

RECURSIVE item_categories(_, _)
item_categories(cats, acc) ==
    IF cats = <<>> THEN acc
    ELSE LET cat == Head(cats) IN
         item_categories(Tail(cats),
             IF cat.txt /\ Len(cat.s) > 0
             THEN Append(acc, unescape(strip(cat.s))) ELSE acc)

\* lines 226-230 without the test of line 229
rss_item_any_link(item_el, items) ==
    LET title == unescape(findtext(item_el.title, <<"(untitled)">>))
        link == findtext(item_el.link, <<>>)
        categories == item_categories(item_el.category, <<>>)
    IN  Append(items, Article(title, link, categories))

\* lines 226-230: one <item> element
rss_item(item_el, items) ==
    LET title == unescape(findtext(item_el.title, <<"(untitled)">>))
        link == findtext(item_el.link, <<>>)
        categories == item_categories(item_el.category, <<>>)
    IN  IF Len(link) > 0 THEN Append(items, Article(title, link, categories))
        ELSE items

RECURSIVE rss_items(_, _)
rss_items(els, items) ==
    IF els = <<>> THEN items
    ELSE rss_items(Tail(els), rss_item(Head(els), items))

fetch_rss(resp) ==
    IF get_error(resp) # "none" THEN Raise(get_error(resp))
    ELSE IF ~resp.wellformed THEN Raise("ParseError")
    ELSE Return(rss_items(resp.items, <<>>))

(***************************************************************************)
(* fetch_article                                                           *)
(***************************************************************************)
\* Tag.get_text(strip=True): every text piece stripped, empty pieces dropped
RECURSIVE get_text_strip(_)
get_text_strip(pieces) ==
    IF pieces = <<>> THEN <<>>
    ELSE strip(Head(pieces)) \o get_text_strip(Tail(pieces))

RECURSIVE article_paragraphs(_, _)
article_paragraphs(els, acc) ==
    IF els = <<>> THEN acc
    ELSE LET p == Head(els) IN
         article_paragraphs(Tail(els),
             IF p.tag = "p" /\ Len(get_text_strip(p.pieces)) > 0
             THEN Append(acc, unescape(get_text_strip(p.pieces))) ELSE acc)

\* the decoded image: Image.open(BytesIO(data)).convert("RGB")
Decoded(img_el) ==
    [src |-> img_el.src.s, mode |-> "RGB",
     width |-> img_el.resp.width, height |-> img_el.resp.height]

\* lines 296-299: the GET of one image and its decoding
fetch_image(img_el) ==
    IF get_error(img_el.resp) # "none" THEN Raise(get_error(img_el.resp))
    ELSE IF ~img_el.resp.decodable THEN Raise("UnidentifiedImageError")
    ELSE Return(Decoded(img_el))

\* lines 292-303, the failure of an image left uncaught
image_step_uncaught(img_el, images) ==
    IF ~img_el.src.el \/ Len(img_el.src.s) = 0 THEN Return(images)
    ELSE LET r == fetch_image(img_el) IN
         IF r.ok THEN Return(Append(images, r.value)) ELSE r

\* lines 292-303: one turn of the loop over the <img> elements
image_step(img_el, images) ==
    IF ~img_el.src.el \/ Len(img_el.src.s) = 0 THEN Return(images)
    ELSE LET r == fetch_image(img_el) IN
         IF r.ok THEN Return(Append(images, r.value)) ELSE Return(images)

RECURSIVE article_images(_, _)
article_images(els, acc) ==
    IF els = <<>> \/ ~acc.ok THEN acc
    ELSE article_images(Tail(els),
             IF Head(els).tag = "img" THEN image_step(Head(els), acc.value)
             ELSE acc)

fetch_article(resp) ==
    IF get_error(resp) # "none" THEN Raise(get_error(resp))
    ELSE LET paragraphs == article_paragraphs(resp.elems, <<>>)
             images == article_images(resp.elems, Return(<<>>))
         IN  IF images.ok
             THEN Return([paragraphs |-> paragraphs, images |-> images.value])
             ELSE images

(***************************************************************************)
(* display_article                                                         *)
(***************************************************************************)
max_width == 700

NoImage == [src |-> <<>>, mode |-> "", width |-> 0, height |-> 0]

\* content_text.insert(END, s, (tag,))
TextItem(s, tag) == [kind |-> "text", s |-> s, tag |-> tag, image |-> NoImage]
\* content_text.image_create(END, image=photo)
ImageItem(photo) == [kind |-> "image", s |-> <<>>, tag |-> "", image |-> photo]

RECURSIVE join(_, _)
join(sep, strs) ==
    IF strs = <<>> THEN <<>>
    ELSE IF Len(strs) = 1 THEN strs[1]
    ELSE strs[1] \o sep \o join(sep, Tail(strs))

prepare_image_for_display(image) ==
    IF image.width > max_width
    THEN [image EXCEPT !.width = (image.width * max_width) \div image.width,
                       !.height = (image.height * max_width) \div image.width]
    ELSE image

\* lines 327-331 and 335-339: show one image and keep a reference to it
show_image(st, image) ==
    LET photo == prepare_image_for_display(image) IN
    [text |-> st.text \o <<ImageItem(photo), TextItem(<<"NL", "NL">>, "")>>,
     refs |-> Append(st.refs, photo)]

\* lines 321-331: the loop over the paragraphs; k is the position of img_iter
RECURSIVE display_paragraphs(_, _, _, _)
display_paragraphs(paragraphs, images, k, st) ==
    IF paragraphs = <<>> THEN [st |-> st, k |-> k]
    ELSE LET para == Head(paragraphs)
             st1 == [st EXCEPT !.text =
                        Append(st.text, TextItem(para \o <<"NL", "NL">>, ""))]
         IN  IF k > Len(images)
             THEN display_paragraphs(Tail(paragraphs), images, k, st1)
             ELSE display_paragraphs(Tail(paragraphs), images, k + 1,
                                     show_image(st1, images[k]))

\* lines 334-339, left out
display_leftover_none(images, k, st) == st

\* lines 334-339: the images img_iter still holds
RECURSIVE display_leftover(_, _, _)
display_leftover(images, k, st) ==
    IF k > Len(images) THEN st
    ELSE display_leftover(images, k + 1, show_image(st, images[k]))

\* the new contents of content_text and image_refs
display_article(title, paragraphs, images, categories, link) ==
    LET category_label ==
            IF Len(categories) > 0 THEN join(<<",", " ">>, categories)
            ELSE <<"Khong ro danh muc">>
        link_label == IF link.none THEN <<"None">> ELSE link.v
        head == << TextItem(title \o <<"NL", "NL">>, "title"),
                   TextItem(<<"Danh muc: ">> \o category_label \o <<"NL">>, "meta"),
                   TextItem(<<"Lien ket goc: ">> \o link_label \o <<"NL", "NL">>,
                            "link") >>
        loop == display_paragraphs(paragraphs, images, 1,
                                   [text |-> head, refs |-> <<>>])
    IN  display_leftover(images, loop.k, loop.st)

(***************************************************************************)
(* The application: tasks, done callbacks and the Tk event queue           *)
(***************************************************************************)
\* the keys of self.default_feeds; the URL of a feed is named by its key
default_feeds == {"Tin moi", "Thoi su", "The gioi", "Kinh doanh", "Van hoa"}

\* the feeds the user picks in the combobox
ChosenFeeds == {"Thoi su"}

Pending == Raise("pending")

\* a future of AsyncioThread.submit with the coroutine it runs.  cb: its done
\* callback is registered; cell: the variable exc of the done callback's
\* except clause, which the scheduled lambda closes over
NewTask(kind, url, title) ==
    [kind |-> kind, url |-> url, title |-> title, done |-> FALSE,
     outcome |-> Pending, cb |-> FALSE, cell |-> "none"]

NoHist == [populate |-> 0, display |-> 0, notify |-> 0, fault |-> 0, enable |-> 0]

Callback(fn, t) == [fn |-> fn, task |-> t]

Idle == [at |-> "idle", task |-> 0]

\* the responses of the network to the GET of a feed
FeedItem(title, link, category) ==
    [title |-> title, link |-> link, category |-> category]
HttpFail(net, status) ==
    [net |-> net, status |-> status, wellformed |-> FALSE, items |-> <<>>,
     elems |-> <<>>]
FeedDoc(items) ==
    [net |-> "ok", status |-> 200, wellformed |-> TRUE, items |-> items,
     elems |-> <<>>]
Malformed == [FeedDoc(<<>>) EXCEPT !.wellformed = FALSE]
Failures ==
    {HttpFail("ClientConnectorError", 0), HttpFail("TimeoutError", 0),
     HttpFail("ok", 404)}

ItemA == FeedItem(Txt(<<"A">>), Txt(<<"a">>), <<Txt(<<"x">>), Txt(<<"y">>)>>)
ItemB == FeedItem(Txt(<<"B">>), Txt(<<"b">>), <<>>)
ItemNoLink == FeedItem(Txt(<<"C">>), Absent, <<Txt(<<"x">>)>>)

AppFeedResponses ==
    {HttpFail("ClientConnectorError", 0), FeedDoc(<<>>),
     FeedDoc(<<ItemA, ItemNoLink, ItemB>>)}

\* the responses of the network to the GET of an article page
PElem(pieces) ==
    [tag |-> "p", pieces |-> pieces, src |-> Absent,
     resp |-> [net |-> "ok", status |-> 200, decodable |-> TRUE,
               width |-> 0, height |-> 0]]
ImgElem(src, resp) == [tag |-> "img", pieces |-> <<>>, src |-> src, resp |-> resp]
ImgOk(w) ==
    [net |-> "ok", status |-> 200, decodable |-> TRUE, width |-> w, height |-> 100]
ImgFail(net, status) ==
    [net |-> net, status |-> status, decodable |-> FALSE, width |-> 0, height |-> 0]
ImgUndecodable == [ImgOk(0) EXCEPT !.decodable = FALSE]
Page(elems) ==
    [net |-> "ok", status |-> 200, wellformed |-> TRUE, items |-> <<>>,
     elems |-> elems]

AppPageResponses ==
    {HttpFail("TimeoutError", 0),
     Page(<<PElem(<< <<"a">> >>), ImgElem(Txt(<<"u1">>), ImgFail("ok", 404)),
            ImgElem(Txt(<<"u2">>), ImgOk(1400))>>)}

(***************************************************************************)
(* Steps of the UI thread                                                  *)
(***************************************************************************)
Bump(t, field) == hist' = [hist EXCEPT ![t][field] = @ + 1]

\* lines 233-250
populate_list(arts) ==
    /\ articles' = arts
    /\ article_tree' =
         [i \in 1..Len(arts) |->
            [title |-> arts[i].title,
             category |-> IF Len(arts[i].categories) > 0
                          THEN join(<<",", " ">>, arts[i].categories)
                          ELSE <<"-">>,
             oddrow |-> ((i - 1) % 2 = 1)]]
    /\ selection' = 0
    /\ content_text' =
         IF Len(arts) = 0 THEN <<TextItem(<<"Khong tim thay bai viet nao.">>, "")>>
         ELSE <<>>
    /\ image_refs' = <<>>
    /\ category_var' = <<"Danh muc: ", "-">>
    /\ current_article_link' = None
    /\ current_categories' = <<>>
    /\ link_button' = "disabled"

\* lines 206-214, with the list filled in by the done callback itself
handle_feed_result_direct(t, fut) ==
    IF fut.ok
    THEN /\ populate_list(fut.value)
         /\ load_button' = load_button
         /\ uiQueue' = Append(uiQueue, Callback("enable", t))
    ELSE /\ uiQueue' = uiQueue \o <<Callback("showerror", t), Callback("enable", t)>>
         /\ UNCHANGED presentation

\* lines 206-214 without line 211
handle_feed_result_no_enable(t, fut) ==
    /\ uiQueue' = uiQueue \o
         (IF fut.ok THEN <<Callback("populate_list", t), Callback("enable", t)>>
          ELSE <<Callback("showerror", t)>>)
    /\ UNCHANGED presentation

\* lines 206-214: the done callback of a feed future
handle_feed_result(t, fut) ==
    /\ uiQueue' = uiQueue \o
         (IF fut.ok THEN <<Callback("populate_list", t), Callback("enable", t)>>
          ELSE <<Callback("showerror", t), Callback("enable", t)>>)
    /\ UNCHANGED presentation

\* lines 270-276: the done callback of an article future
handle_article_result(t, fut) ==
    /\ uiQueue' = Append(uiQueue,
         IF fut.ok THEN Callback("display_article", t) ELSE Callback("showerror", t))
    /\ UNCHANGED presentation

handle_result(t, fut) ==
    IF tasks[t].kind = "feed" THEN handle_feed_result(t, fut)
    ELSE handle_article_result(t, fut)

\* lines 197-203: load_feed up to the submit
load_feed ==
    /\ Len(tasks) < MaxTasks
    /\ IF feed_choice' \notin default_feeds
       THEN UNCHANGED <<tasks, hist, uiPc, load_button>>
       ELSE /\ load_button' = "disabled"
            /\ tasks' = Append(tasks, NewTask("feed", feed_choice', <<>>))
            /\ hist' = Append(hist, NoHist)
            /\ uiPc' = [at |-> "load_feed:204", task |-> Len(tasks) + 1]
    /\ thread' = "ui"
    /\ UNCHANGED <<articles, article_tree, selection, content_text, image_refs,
                   current_article_link, current_categories, category_var,
                   link_button, uiQueue, closed, dialogs, callVars>>

UserCanAct == ~closed /\ uiPc = Idle /\ dialogs = 0

\* the button "Lam moi" (line 128): a disabled button runs no command
ClickLoad ==
    /\ UserCanAct
    /\ load_button = "normal"
    /\ feed_choice' = feed_choice
    /\ load_feed

\* lines 194-195: a choice in the combobox
on_feed_selected(f) ==
    /\ UserCanAct
    /\ feed_choice' = f
    /\ load_feed

\* lines 252-267: a row of the tree is selected
on_article_selected(i) ==
    /\ UserCanAct
    /\ Len(tasks) < MaxTasks
    /\ i \in 1..Len(article_tree)
    /\ selection' = i
    /\ LET article == articles[i] IN
       /\ current_article_link' = Some(article.link)
       /\ current_categories' = article.categories
       /\ category_var' = <<"Danh muc: ">> \o
            (IF Len(article.categories) > 0
             THEN join(<<",", " ">>, article.categories)
             ELSE <<"Khong ro danh muc">>)
       /\ link_button' = IF Len(article.link) > 0 THEN "normal" ELSE "disabled"
       /\ content_text' = <<TextItem(<<"Dang tai noi dung bai viet...">>, "")>>
       /\ tasks' = Append(tasks, NewTask("article", article.link, article.title))
    /\ hist' = Append(hist, NoHist)
    /\ uiPc' = [at |-> "on_article_selected:268", task |-> Len(tasks) + 1]
    /\ thread' = "ui"
    /\ UNCHANGED <<articles, article_tree, image_refs, load_button, feed_choice,
                   uiQueue, closed, dialogs, callVars>>

\* lines 204 and 268: add_done_callback runs the callback at once, on the
\* calling thread, when the future is already done
AddDoneCallback ==
    /\ ~closed
    /\ uiPc # Idle
    /\ LET t == uiPc.task IN
       IF tasks[t].done
       THEN /\ handle_result(t, tasks[t].outcome)
            /\ tasks' = [tasks EXCEPT ![t].cb = TRUE,
                             ![t].cell = IF tasks[t].outcome.ok THEN "none"
                                         ELSE "unbound"]
       ELSE /\ tasks' = [tasks EXCEPT ![t].cb = TRUE]
            /\ UNCHANGED <<uiQueue, presentation>>
    /\ uiPc' = Idle
    /\ thread' = "ui"
    /\ UNCHANGED <<closed, dialogs, hist, feed_choice, callVars>>

UICanRun(fn) ==
    /\ ~closed
    /\ uiPc = Idle
    /\ uiQueue # <<>>
    /\ Head(uiQueue).fn = fn

\* line 213: lambda: self.populate_list(articles)
UIPopulate ==
    /\ UICanRun("populate_list")
    /\ populate_list(tasks[Head(uiQueue).task].outcome.value)
    /\ Bump(Head(uiQueue).task, "populate")
    /\ uiQueue' = Tail(uiQueue)
    /\ thread' = "ui"
    /\ UNCHANGED <<tasks, uiPc, closed, dialogs, feed_choice, load_button, callVars>>

\* lines 211 and 214: lambda: self.load_button.config(state=tk.NORMAL)
UIEnable ==
    /\ UICanRun("enable")
    /\ load_button' = "normal"
    /\ Bump(Head(uiQueue).task, "enable")
    /\ uiQueue' = Tail(uiQueue)
    /\ thread' = "ui"
    /\ UNCHANGED <<tasks, uiPc, closed, dialogs, feed_choice, articles, article_tree,
                   selection, content_text, image_refs, current_article_link,
                   current_categories, category_var, link_button, callVars>>

\* lines 210 and 274: lambda: messagebox.showerror(..., str(exc)).  exc is
\* unbound once the except clause that scheduled the lambda has been left:
\* str(exc) then raises NameError, which Tk reports and drops
UIShowError ==
    /\ UICanRun("showerror")
    /\ LET t == Head(uiQueue).task IN
       IF tasks[t].cell = "bound"
       THEN dialogs' = dialogs + 1 /\ Bump(t, "notify")
       ELSE dialogs' = dialogs /\ Bump(t, "fault")
    /\ uiQueue' = Tail(uiQueue)
    /\ thread' = "ui"
    /\ UNCHANGED <<tasks, uiPc, closed, feed_choice, presentation, callVars>>

\* line 276 with a result dropped when its article is no longer the current one
UIDisplayGuarded ==
    /\ UICanRun("display_article")
    /\ LET t == Head(uiQueue).task
           r == display_article(tasks[t].title, tasks[t].outcome.value.paragraphs,
                                tasks[t].outcome.value.images,
                                current_categories, current_article_link)
       IN  IF current_article_link = Some(tasks[t].url)
           THEN /\ content_text' = r.text
                /\ image_refs' = r.refs
                /\ Bump(t, "display")
           ELSE UNCHANGED <<content_text, image_refs, hist>>
    /\ uiQueue' = Tail(uiQueue)
    /\ thread' = "ui"
    /\ UNCHANGED <<tasks, uiPc, closed, dialogs, feed_choice, articles, article_tree,
                   selection, current_article_link, current_categories,
                   category_var, load_button, link_button, callVars>>

\* line 276: lambda: self.display_article(title, paragraphs, images)
UIDisplay ==
    /\ UICanRun("display_article")
    /\ LET t == Head(uiQueue).task
           r == display_article(tasks[t].title, tasks[t].outcome.value.paragraphs,
                                tasks[t].outcome.value.images,
                                current_categories, current_article_link)
       IN  /\ content_text' = r.text
           /\ image_refs' = r.refs
           /\ Bump(t, "display")
    /\ uiQueue' = Tail(uiQueue)
    /\ thread' = "ui"
    /\ UNCHANGED <<tasks, uiPc, closed, dialogs, feed_choice, articles, article_tree,
                   selection, current_article_link, current_categories,
                   category_var, load_button, link_button, callVars>>

\* the user closes an error dialog
Dismiss ==
    /\ ~closed
    /\ dialogs > 0
    /\ dialogs' = dialogs - 1
    /\ thread' = "ui"
    /\ UNCHANGED <<tasks, uiQueue, uiPc, closed, hist, feed_choice, presentation,
                   callVars>>

\* lines 353-355
on_close ==
    /\ UserCanAct
    /\ closed' = TRUE
    /\ thread' = "ui"
    /\ UNCHANGED <<tasks, uiQueue, uiPc, dialogs, hist, feed_choice, presentation,
                   callVars>>

(***************************************************************************)
(* Steps of the worker thread                                              *)
(***************************************************************************)
\* the coroutine of task t ends and the future runs its done callback, if it
\* has one, on the loop's thread
Complete(t, fut) ==
    /\ ~closed
    /\ ~tasks[t].done
    /\ IF tasks[t].cb
       THEN /\ handle_result(t, fut)
            /\ tasks' = [tasks EXCEPT ![t].done = TRUE, ![t].outcome = fut,
                             ![t].cell = IF fut.ok THEN "none" ELSE "bound"]
       ELSE /\ tasks' = [tasks EXCEPT ![t].done = TRUE, ![t].outcome = fut]
            /\ UNCHANGED <<uiQueue, presentation>>
    /\ thread' = "worker"
    /\ UNCHANGED <<uiPc, closed, dialogs, hist, feed_choice, callVars>>

WorkerFetchRss(t, resp) ==
    /\ tasks[t].kind = "feed"
    /\ Complete(t, fetch_rss(resp))

WorkerFetchArticle(t, resp) ==
    /\ tasks[t].kind = "article"
    /\ Complete(t, fetch_article(resp))

\* lines 212 and 275: the done callback leaves its except clause
HandlerReturn(t) ==
    /\ ~closed
    /\ tasks[t].cell = "bound"
    /\ tasks' = [tasks EXCEPT ![t].cell = "unbound"]
    /\ thread' = "worker"
    /\ UNCHANGED <<uiQueue, uiPc, closed, dialogs, hist, feed_choice, presentation,
                   callVars>>

(***************************************************************************)
(* The application's specification                                         *)
(***************************************************************************)
NotCalled == [called |-> FALSE, fn |-> "", out |-> <<>>]

\* lines 52-78: the constructor, up to the submit of its load_feed() call
InitApp ==
    /\ tasks = <<NewTask("feed", "Tin moi", <<>>)>>
    /\ hist = <<NoHist>>
    /\ uiQueue = <<>>
    /\ uiPc = [at |-> "load_feed:204", task |-> 1]
    /\ closed = FALSE
    /\ dialogs = 0
    /\ thread = "ui"
    /\ feed_choice = "Tin moi"
    /\ articles = <<>>
    /\ article_tree = <<>>
    /\ selection = 0
    /\ content_text = <<>>
    /\ image_refs = <<>>
    /\ current_article_link = None
    /\ current_categories = <<>>
    /\ category_var = <<"Danh muc: ", "-">>
    /\ load_button = "disabled"
    /\ link_button = "disabled"

Init ==
    /\ InitApp
    /\ arg = <<>>
    /\ ret = NotCalled

UIStep ==
    \/ ClickLoad
    \/ \E f \in ChosenFeeds : on_feed_selected(f)
    \/ \E i \in 1..Len(article_tree) : on_article_selected(i)
    \/ AddDoneCallback
    \/ UIPopulate
    \/ UIEnable
    \/ UIShowError
    \/ UIDisplay
    \/ Dismiss
    \/ on_close

WorkerStep ==
    \/ \E t \in 1..Len(tasks) : \E resp \in AppFeedResponses : WorkerFetchRss(t, resp)
    \/ \E t \in 1..Len(tasks) : \E resp \in AppPageResponses : WorkerFetchArticle(t, resp)
    \/ \E t \in 1..Len(tasks) : HandlerReturn(t)

Next == UIStep \/ WorkerStep

Spec == Init /\ [][Next]_vars

\* the loop runs every coroutine to its end (each GET has a timeout) and the
\* Tk main loop runs every scheduled callback
Scheduled ==
    \/ WorkerStep
    \/ AddDoneCallback
    \/ UIPopulate \/ UIEnable \/ UIShowError \/ UIDisplay

FairSpec == Spec /\ WF_vars(Scheduled)

(***************************************************************************)
(* fetch_rss, fetch_article and display_article called on their own        *)
(***************************************************************************)
SeqsUpTo(S, n) == UNION {[1..k -> S] : k \in 0..n}

appVars == <<tasks, uiQueue, uiPc, closed, dialogs, hist, thread, feed_choice>>

Called(fn, out) == [called |-> TRUE, fn |-> fn, out |-> out]

FeedItems ==
    {FeedItem(title, link, category) :
        title \in {Absent, Txt(<<"&amp;">>)},
        link \in {Absent, NoText, Txt(<<" ">>), Txt(<<"a">>), Txt(<<"b">>)},
        category \in {<<>>, <<NoText>>, <<Txt(<<" ", "x">>), Txt(<<"&amp;">>)>>,
                      <<Txt(<<"y">>), NoText, Txt(<<" ">>), Txt(<<"x">>)>>}}

FeedResponses ==
    Failures \cup {Malformed} \cup {FeedDoc(items) : items \in SeqsUpTo(FeedItems, MaxItems)}

InitFetchRss ==
    /\ InitApp
    /\ arg \in FeedResponses
    /\ ret = NotCalled

CallFetchRss ==
    /\ ~ret.called
    /\ ret' = Called("fetch_rss", fetch_rss(arg))
    /\ UNCHANGED <<arg, appVars, presentation>>

SpecFetchRss == InitFetchRss /\ [][CallFetchRss]_vars

ImgResponses ==
    {ImgOk(640), ImgOk(1400), ImgFail("ClientConnectorError", 0),
     ImgFail("TimeoutError", 0), ImgFail("ok", 404), ImgUndecodable}

PageElems ==
    {PElem(pieces) : pieces \in {<<>>, << <<" ">> >>, << <<"a">> >>,
                                 << <<" ", "b">>, <<" ">>, <<"&amp;", " ">> >>}}
    \cup {ImgElem(src, ImgOk(640)) : src \in {Absent, Txt(<<>>)}}
    \cup {ImgElem(src, resp) : src \in {Txt(<<"u1">>), Txt(<<"u2">>)},
                               resp \in ImgResponses}

\* three <p> (one empty) and two <img> (one with an empty src)
ExamplePage ==
    Page(<<PElem(<< <<"a">> >>), ImgElem(Txt(<<>>), ImgOk(640)), PElem(<< <<" ">> >>),
           ImgElem(Txt(<<"u1">>), ImgOk(640)), PElem(<< <<" ", "b">> >>)>>)

PageResponses ==
    Failures \cup {ExamplePage}
    \cup {Page(elems) : elems \in SeqsUpTo(PageElems, MaxElems)}

InitFetchArticle ==
    /\ InitApp
    /\ arg \in PageResponses
    /\ ret = NotCalled

CallFetchArticle ==
    /\ ~ret.called
    /\ ret' = Called("fetch_article", fetch_article(arg))
    /\ UNCHANGED <<arg, appVars, presentation>>

SpecFetchArticle == InitFetchArticle /\ [][CallFetchArticle]_vars

Img1 == [src |-> <<"u1">>, mode |-> "RGB", width |-> 640, height |-> 100]
Img2 == [src |-> <<"u2">>, mode |-> "RGB", width |-> 1400, height |-> 100]

DisplayArgs ==
    [title : {<<"A">>},
     paragraphs : SeqsUpTo({<<"p1">>, <<"p2">>}, MaxParas),
     images : SeqsUpTo({Img1, Img2}, MaxImages)]

\* display_article is called on a view that shows something else
InitDisplay ==
    /\ tasks = <<>> /\ hist = <<>> /\ uiQueue = <<>> /\ uiPc = Idle
    /\ closed = FALSE /\ dialogs = 0 /\ thread = "ui" /\ feed_choice = "Tin moi"
    /\ articles = <<>> /\ article_tree = <<>> /\ selection = 0
    /\ category_var = <<"Danh muc: ", "-">>
    /\ load_button = "normal" /\ link_button = "disabled"
    /\ content_text \in {<<>>, <<TextItem(<<"Dang tai noi dung bai viet...">>, "")>>}
    /\ image_refs \in {<<>>, <<Img1>>}
    /\ current_article_link \in {None, Some(<<"a">>)}
    /\ current_categories \in {<<>>, <<<<"x">>, <<"y">>>>}
    /\ arg \in DisplayArgs
    /\ ret = NotCalled

CallDisplay ==
    /\ ~ret.called
    /\ LET r == display_article(arg.title, arg.paragraphs, arg.images,
                                current_categories, current_article_link)
       IN  content_text' = r.text /\ image_refs' = r.refs
    /\ ret' = Called("display_article", <<>>)
    /\ UNCHANGED <<arg, appVars, articles, article_tree, selection,
                   current_article_link, current_categories, category_var,
                   load_button, link_button>>

SpecDisplay == InitDisplay /\ [][CallDisplay]_vars

(***************************************************************************)
(* Properties                                                              *)
(***************************************************************************)
\* the k-th smallest member of a set of positions
Kth(S, k) == CHOOSE p \in S : Cardinality({q \in S : q <= p}) = k

Min(a, b) == IF a < b THEN a ELSE b

TaskIds == 1..Len(tasks)

\* no callback of task t waits in the Tk event queue
Drained(t) == \A i \in 1..Len(uiQueue) : uiQueue[i].task # t

\* task t is complete, its done callback has run and so have the callbacks
\* that one scheduled
Settled(t) == tasks[t].done /\ tasks[t].cb /\ Drained(t)

\* how often the outcome of task t reached the user
Applied(t) ==
    hist[t].notify +
    (IF tasks[t].kind = "feed" THEN hist[t].populate ELSE hist[t].display)

\* C1: the outcome of every task that completes while the worker is not shut
\* down is applied on the UI thread exactly once: one populate_list or one
\* error notification for a feed task, one display_article or one error
\* notification for an article task; never twice, and once its callbacks have
\* run, not zero times.
C1_ExactlyOnce ==
    \A t \in TaskIds :
        /\ Applied(t) <= 1
        /\ (~closed /\ Settled(t)) => Applied(t) = 1

\* C2: the presentation state changes only in steps of the UI thread; the
\* done callbacks, run on the worker's thread, leave it as it is.
C2_UIConfinement == [][presentation' # presentation => thread' = "ui"]_vars

\* C2 witness: the worker's thread has just run the done callback of a feed
\* future, which scheduled populate_list and the re-enabling of the button.
C2_Witness ==
    /\ thread = "worker"
    /\ Len(uiQueue) >= 2
    /\ uiQueue[Len(uiQueue) - 1].fn = "populate_list"
    /\ uiQueue[Len(uiQueue)].fn = "enable"

\* the text of a <p> has a character that is no white space
TrimmedNonEmpty(p) ==
    \E i \in 1..Len(p.pieces) : \E j \in 1..Len(p.pieces[i]) : p.pieces[i][j] # " "

ParaIdx(elems) ==
    {i \in 1..Len(elems) : elems[i].tag = "p" /\ TrimmedNonEmpty(elems[i])}

UsableSrc(e) == e.tag = "img" /\ e.src.el /\ e.src.s # <<>>

ImageSucceeds(e) == e.resp.net = "ok" /\ e.resp.status < 400 /\ e.resp.decodable

GoodImgIdx(elems) ==
    {i \in 1..Len(elems) : UsableSrc(elems[i]) /\ ImageSucceeds(elems[i])}

FailedImgIdx(elems) ==
    {i \in 1..Len(elems) : UsableSrc(elems[i]) /\ ~ImageSucceeds(elems[i])}

\* C3: for every page fetched successfully, whichever of its images fail,
\* fetch_article returns (does not raise) all the paragraphs whose trimmed
\* text is not empty, in document order, and exactly the images that
\* succeeded, in document order.
C3_PartialImageFailure ==
    (ret.called /\ get_error(arg) = "none") =>
        /\ ret.out.ok
        /\ LET elems == arg.elems
               paragraphs == ret.out.value.paragraphs
               images == ret.out.value.images
           IN  /\ Len(paragraphs) = Cardinality(ParaIdx(elems))
               /\ \A k \in 1..Len(paragraphs) :
                    paragraphs[k] =
                        unescape(get_text_strip(elems[Kth(ParaIdx(elems), k)].pieces))
               /\ Len(images) = Cardinality(GoodImgIdx(elems))
               /\ \A k \in 1..Len(images) :
                    /\ images[k].src = elems[Kth(GoodImgIdx(elems), k)].src.s
                    /\ images[k].width = elems[Kth(GoodImgIdx(elems), k)].resp.width

\* C3 witness: a page with a paragraph and two images with a usable src, of
\* which the first failed and the second succeeded, has been fetched.
C3_Witness ==
    /\ ret.called
    /\ get_error(arg) = "none"
    /\ Cardinality(FailedImgIdx(arg.elems)) = 1
    /\ Cardinality(GoodImgIdx(arg.elems)) = 1
    /\ Kth(FailedImgIdx(arg.elems), 1) < Kth(GoodImgIdx(arg.elems), 1)
    /\ Cardinality(ParaIdx(arg.elems)) = 1
    /\ ret.out.ok
    /\ Len(ret.out.value.images) = 1

\* C4: a feed task whose GET or parse failed ends with a failure; once its
\* callbacks have run, populate_list was never called for it, exactly one
\* error notification was shown and nothing was raised on the UI thread.
C4_FeedFailureReported ==
    \A t \in TaskIds :
        (tasks[t].kind = "feed" /\ Settled(t) /\ ~tasks[t].outcome.ok) =>
            /\ hist[t].populate = 0
            /\ hist[t].notify = 1
            /\ hist[t].fault = 0

\* C5: under fair scheduling of the worker and of the Tk event queue, every
\* load_feed call is followed, unless the window is closed, by the callback
\* of its task that sets the load button back to enabled, and a disabled
\* button does not stay disabled.
C5_LoadButtonReenabled ==
    /\ \A t \in 1..MaxTasks :
         (t <= Len(tasks) /\ tasks[t].kind = "feed")
             ~> (closed \/ (t <= Len(tasks) /\ hist[t].enable = 1))
    /\ (load_button = "disabled") ~> (closed \/ load_button = "normal")

\* C5 witness: a feed task has failed, its callbacks have run and the load
\* button is enabled again.
C5_Witness ==
    \E t \in TaskIds :
        /\ tasks[t].kind = "feed"
        /\ Settled(t)
        /\ ~tasks[t].outcome.ok
        /\ hist[t].enable = 1
        /\ load_button = "normal"

HasLink(item) == item.link.el /\ item.link.txt /\ item.link.s # <<>>

LinkedIdx(items) == {i \in 1..Len(items) : HasLink(items[i])}

TextCatIdx(item) ==
    {j \in 1..Len(item.category) : item.category[j].txt /\ item.category[j].s # <<>>}

\* C6: for every valid feed document fetch_rss returns exactly the items that
\* have a non-empty link, in document order, each with its category labels in
\* document order.
C6_FeedOrder ==
    (ret.called /\ get_error(arg) = "none" /\ arg.wellformed) =>
        /\ ret.out.ok
        /\ LET items == arg.items
               out == ret.out.value
           IN  /\ Len(out) = Cardinality(LinkedIdx(items))
               /\ \A k \in 1..Len(out) :
                    LET item == items[Kth(LinkedIdx(items), k)] IN
                    /\ out[k].link = item.link.s
                    /\ Len(out[k].categories) = Cardinality(TextCatIdx(item))
                    /\ \A m \in 1..Len(out[k].categories) :
                         out[k].categories[m] =
                            unescape(strip(item.category[Kth(TextCatIdx(item), m)].s))

\* C6 witness: a feed of two items, the first without a link, has been
\* fetched and gave one Article, which carries two category labels.
C6_Witness ==
    /\ ret.called
    /\ get_error(arg) = "none" /\ arg.wellformed
    /\ Len(arg.items) = 2
    /\ ~HasLink(arg.items[1])
    /\ HasLink(arg.items[2])
    /\ ret.out.ok
    /\ Len(ret.out.value) = 1
    /\ Len(ret.out.value[1].categories) = 2

IsSeparator(it) == it.kind = "text" /\ it.s = <<"NL", "NL">>

\* what display_article rendered after the title, the categories and the
\* link, without the blank lines that follow the images
RenderedBody == SelectSeq(SubSeq(content_text, 4, Len(content_text)),
                          LAMBDA it : ~IsSeparator(it))

\* C7: display_article renders P[1], I[1], P[2], I[2], ... while both lists
\* last, then the rest of the longer list in its own order; every paragraph
\* and every image once; image_refs holds one handle per image, in order.
C7_Pairing ==
    ret.called =>
        LET P == arg.paragraphs
            I == arg.images
            m == Min(Len(P), Len(I))
            body == RenderedBody
        IN  /\ Len(body) = Len(P) + Len(I)
            /\ \A n \in 1..Len(body) :
                 IF n <= 2 * m
                 THEN IF n % 2 = 1
                      THEN body[n] = TextItem(P[(n + 1) \div 2] \o <<"NL", "NL">>, "")
                      ELSE body[n] = ImageItem(prepare_image_for_display(I[n \div 2]))
                 ELSE IF Len(P) > Len(I)
                      THEN body[n] = TextItem(P[n - m] \o <<"NL", "NL">>, "")
                      ELSE body[n] = ImageItem(prepare_image_for_display(I[n - m]))
            /\ Len(image_refs) = Len(I)
            /\ \A k \in 1..Len(I) : image_refs[k] = prepare_image_for_display(I[k])

\* C7 witness: display_article has rendered one paragraph and three images on
\* a view that held a reference to an older image.
C7_Witness ==
    /\ ret.called
    /\ Len(arg.paragraphs) = 1
    /\ Len(arg.images) = 3
    /\ arg.images[1] # arg.images[2]
    /\ Len(image_refs) = 3

TitleItem(title) == TextItem(title \o <<"NL", "NL">>, "title")

LinkItem(link) ==
    TextItem(<<"Lien ket goc: ">> \o (IF link.none THEN <<"None">> ELSE link.v)
             \o <<"NL", "NL">>, "link")

\* C8: the result of an article fetch is rendered whenever its callback runs,
\* whatever is selected by then: the view then shows the title, the
\* paragraphs and the images of the task's article next to the link of the
\* current selection.
C8_NoStaleGuard ==
    [][(uiQueue # <<>> /\ Head(uiQueue).fn = "display_article"
        /\ uiQueue' = Tail(uiQueue)) =>
          LET t == Head(uiQueue).task IN
          /\ hist'[t].display = hist[t].display + 1
          /\ Len(content_text') =
                3 + Len(tasks[t].outcome.value.paragraphs)
                  + 2 * Len(tasks[t].outcome.value.images)
          /\ content_text'[1] = TitleItem(tasks[t].title)
          /\ content_text'[3] = LinkItem(current_article_link)
          /\ Len(image_refs') = Len(tasks[t].outcome.value.images)]_vars

\* C8 witness: the view shows the title of an article other than the selected
\* one, next to the link of the selected one.
C8_Witness ==
    /\ selection # 0
    /\ Len(content_text) >= 3
    /\ \E t \in TaskIds :
         /\ tasks[t].kind = "article"
         /\ hist[t].display = 1
         /\ content_text[1] = TitleItem(tasks[t].title)
         /\ tasks[t].title # articles[selection].title
    /\ current_article_link = Some(articles[selection].link)
    /\ content_text[3] = LinkItem(current_article_link)
    /\ current_categories = articles[selection].categories

ShowsArticle == \E i \in 1..Len(content_text) : content_text[i].tag = "title"

\* C9: once a feed reload has been applied, and until the user selects an
\* article again (populate_list empties the tree's selection), the view shows
\* no article and image_refs is empty.
C9_DiscardedOnReload ==
    ((\E t \in TaskIds : hist[t].populate > 0) /\ selection = 0) =>
        (~ShowsArticle /\ image_refs = <<>>)

\* a feed fetch is outstanding: submitted, its outcome not yet applied
FeedOutstanding(t) ==
    /\ tasks[t].kind = "feed"
    /\ hist[t].populate + hist[t].notify + hist[t].fault = 0

\* C10: the load button is disabled in every state in which a feed fetch is
\* outstanding.
C10_DisabledWhilePending ==
    (\E t \in TaskIds : FeedOutstanding(t)) => load_button = "disabled"

====
